---- MODULE Spec2Model ----
(***************************************************************************)
(* AposaJson (include/AposaJson/AposaJson.hpp): the JsonValue /            *)
(* JsonDocument value model, JsonSerializer and the recursive-descent      *)
(* JsonParser, as a state machine.                                         *)
(*                                                                         *)
(* Text is a sequence of one-character strings.  Positions are 1-based:    *)
(* position p is the iterator begin() + (p - 1), so end() of a text t is   *)
(* Len(t) + 1.  Position 0 stands for an iterator that was never set.      *)
(***************************************************************************)
EXTENDS Integers, Sequences, FiniteSets, TLC

VARIABLES
    mode,       \* "doc": the user builds srcDoc and serializes it; "text": the user supplies json_str
    srcDoc,     \* the JsonDocument the user built (mode "doc")
    json_str,   \* the std::string handed to JsonParser::Parse
    pc,         \* where the program is: built, ready, parsing, done, crashed, nomem
    mem,        \* the characters read so far: json_str, then whatever lies behind it in memory
    it,         \* JsonParser::_it
    it_end,     \* JsonParser::_it_end
    stack,      \* the calls below ParseJson, innermost last
    doc,        \* ParseJson's local doc; Parse's return value once pc = "done"
    isKey,      \* ParseJson's local isKey
    key_word,   \* ParseJson's local key_word
    order,      \* the order in which the build's member map iterates over the keys
    val,        \* a JsonValue the user holds (value-model operations)
    ret,        \* what the last getter call on val produced
    last        \* the mutator most recently called on val, "none" before the first

vars == <<mode, srcDoc, json_str, pc, mem, it, it_end, stack, doc, isKey, key_word, order, val, ret, last>>

parserVars == <<mem, it, it_end, stack, doc, isKey, key_word>>

(***************************************************************************)
(* Bounds of the model.                                                    *)
(***************************************************************************)
\* elements of an array in a document the user builds
MaxArrLen == 3
\* tokens of a text the user supplies, after its opening part
MaxTokens == 2
\* characters behind the end of json_str that can be read before the read faults
MaxOverrun == 1
\* elements a std::vector can take before the allocation fails
MaxElems == 5

(***************************************************************************)
(* Characters.                                                             *)
(***************************************************************************)
QUOTE == "\""
NUL == "\\0"
\* a position the cursor jumped over without reading it
Skipped == "?"

Digits == {"0", "1", "2", "3", "4", "5", "6", "7", "8", "9"}

\* isspace() in the "C" locale
IsSpace(c) == c \in {" ", "\n", "\t", "\r", "\f"}

\* what a read behind the end of the text may find
Chars == {"{", "}", "[", "]", QUOTE, ",", ":", " ", "\n", "n", "t", "f", "1", "x", NUL}

RECURSIVE Concat(_)
Concat(ss) == IF ss = <<>> THEN <<>> ELSE Head(ss) \o Concat(Tail(ss))

(***************************************************************************)
(* JsonValue: every field of the class; Uninit is a field no constructor   *)
(* or setter has written yet.                                              *)
(***************************************************************************)
Uninit == "Uninit"

JsonValueType == {"Null", "Boolean", "Number", "String", "Array", "Object"}

JsonNumberType == {"Int", "Uint", "Int64", "Uint64", "Double", "Float", "Int16", "String"}

\* JsonValue(JsonValueType type), and JsonValue() with type Null
\* number_value is the anonymous union of the numeric payloads (meaningful only
\* once a typed setter has set _number_type); _boolean is "true", "false" or Uninit.
JsonValue(type) ==
    [_type |-> type, _number_type |-> Uninit, number_value |-> 0, number_string |-> <<>>,
     _boolean |-> Uninit, _string |-> <<>>, _array |-> <<>>, _object |-> <<>>]

SetBoolean(v, b) == [v EXCEPT !._type = "Boolean", !._boolean = IF b THEN "true" ELSE "false"]

SetInt(v, n) == [v EXCEPT !._type = "Number", !._number_type = "Int", !.number_value = n]

SetNumberString(v, s) == [v EXCEPT !._number_type = "String", !.number_string = s]

SetUint(v, n) == [v EXCEPT !._type = "Number", !._number_type = "Uint", !.number_value = n]

SetInt64(v, n) == [v EXCEPT !._type = "Number", !._number_type = "Int64", !.number_value = n]

SetUint64(v, n) == [v EXCEPT !._type = "Number", !._number_type = "Uint64", !.number_value = n]

\* the doubles and floats set here are whole numbers
SetDouble(v, n) == [v EXCEPT !._type = "Number", !._number_type = "Double", !.number_value = n]

SetFloat(v, n) == [v EXCEPT !._type = "Number", !._number_type = "Float", !.number_value = n]

SetInt16(v, n) == [v EXCEPT !._type = "Number", !._number_type = "Int16", !.number_value = n]

SetString(v, s) == [v EXCEPT !._type = "String", !._string = s]

AddElement(v, e) == [v EXCEPT !._type = "Array", !._array = Append(v._array, e)]

\* std::map / std::unordered_map operator[] then assignment
MapAssign(m, key, value) ==
    [k \in (DOMAIN m) \cup {key} |-> IF k = key THEN value ELSE m[k]]

AddMember(v, key, value) ==
    [v EXCEPT !._type = "Object", !._object = MapAssign(v._object, key, value)]

\* JsonDocument::AddMember on the document's _map
DocAddMember(d, key, value) == MapAssign(d, key, value)

\* JsonDocument()
EmptyDoc == <<>>

(***************************************************************************)
(* JsonSerializer.                                                         *)
(***************************************************************************)
\* the members of map m in the order a range-for visits them
Members(m) == SelectSeq(order, LAMBDA k : k \in DOMAIN m)

GenKey(key) == <<QUOTE>> \o key \o <<QUOTE, ":">>

DecimalDigit(d) ==
    CASE d = 0 -> "0" [] d = 1 -> "1" [] d = 2 -> "2" [] d = 3 -> "3" [] d = 4 -> "4"
      [] d = 5 -> "5" [] d = 6 -> "6" [] d = 7 -> "7" [] d = 8 -> "8" [] d = 9 -> "9"

\* std::to_string of an integer
RECURSIVE to_string(_)
to_string(n) ==
    IF n < 0 THEN <<"-">> \o to_string(0 - n)
    ELSE IF n < 10 THEN <<DecimalDigit(n)>>
    ELSE to_string(n \div 10) \o <<DecimalDigit(n % 10)>>

\* the comma after the i-th of size items: if (++i < size) tmp_str += ","
SeparatorBug(i, size) == IF i <= size THEN <<",">> ELSE <<>>
Separator(i, size) == IF i < size THEN <<",">> ELSE <<>>

\* the inner switch on GetNumberType(); a _number_type no case matches appends nothing
GenNumber(v) ==
    CASE v._number_type = "String" -> v.number_string
      [] v._number_type \in {"Int", "Uint", "Int64", "Uint64", "Int16"} -> to_string(v.number_value)
      [] v._number_type \in {"Double", "Float"} -> to_string(v.number_value) \o <<".", "0", "0", "0", "0", "0", "0">>
      [] OTHER -> <<>>

RECURSIVE GenValue(_), GenArrayFrom(_, _), GenObjectFrom(_, _, _)
\* the switch on GetType() that SerializeObject, GenArray and GenObject each carry
GenValue(v) ==
    CASE v._type = "Null" -> <<"n", "u", "l", "l">>
      [] v._type = "Boolean" ->
            IF v._boolean = "true" THEN <<"t", "r", "u", "e">>
            ELSE IF v._boolean = "false" THEN <<"f", "a", "l", "s", "e">>
            ELSE <<Uninit>>
      [] v._type = "Number" -> GenNumber(v)
      [] v._type = "String" -> <<QUOTE>> \o v._string \o <<QUOTE>>
      [] v._type = "Array" -> <<"[">> \o GenArrayFrom(v._array, 1) \o <<"]">>
      [] v._type = "Object" -> <<"{">> \o GenObjectFrom(v._object, Members(v._object), 1) \o <<"}">>

\* GenArray's loop from the i-th item on
GenArrayFrom(arr, i) ==
    IF i > Len(arr) THEN <<>>
    ELSE GenValue(arr[i]) \o Separator(i, Len(arr)) \o GenArrayFrom(arr, i + 1)

\* GenObject's (and SerializeObject's) loop from the i-th member on
GenObjectFrom(m, keys, i) ==
    IF i > Len(keys) THEN <<>>
    ELSE GenKey(keys[i]) \o GenValue(m[keys[i]]) \o Separator(i, Len(keys))
         \o GenObjectFrom(m, keys, i + 1)

SerializeObject(d) == <<"{">> \o GenObjectFrom(d, Members(d), 1) \o <<"}">>

(***************************************************************************)
(* The documents a user builds through the public API.                     *)
(***************************************************************************)
KeyA == <<"a">>
KeyB == <<"b">>
Keys == {KeyA, KeyB}
KeyOrders == {<<KeyA, KeyB>>, <<KeyB, KeyA>>}

NullValue == JsonValue("Null")
BooleanValue(b) == SetBoolean(JsonValue("Null"), b)
\* as the parser builds it: JsonValue value(JsonValueType::Number); value.SetNumberString(s)
NumberValue(s) == SetNumberString(JsonValue("Number"), s)
StringValue(s) == SetString(JsonValue("Null"), s)
\* JsonValue(JsonValueType::Array), then AddElement for each element
ArrayValue(elems) == [JsonValue("Array") EXCEPT !._array = elems]
\* JsonValue(JsonValueType::Object), then AddMember for each member
ObjectValue(m) == [JsonValue("Object") EXCEPT !._object = m]

Leaves ==
    {NullValue, BooleanValue(TRUE), BooleanValue(FALSE), NumberValue(<<"1">>), StringValue(<<"s">>)}

Elements ==
    Leaves \cup {ArrayValue(<<>>), ObjectValue(<<>>), ObjectValue([k \in {KeyB} |-> BooleanValue(TRUE)])}

Arrays == UNION {{ArrayValue(e) : e \in [1..n -> Elements]} : n \in 0..MaxArrLen}

Objects == {ObjectValue(<<>>)} \cup {ObjectValue([k \in {KeyB} |-> v]) : v \in Leaves}

MemberValues == Leaves \cup {SetInt(JsonValue("Null"), 42)} \cup Arrays \cup Objects

Docs ==
    {EmptyDoc} \cup {[k \in {KeyA} |-> v] : v \in MemberValues}
               \cup {[k \in Keys |-> IF k = KeyA THEN v ELSE w] : v \in Leaves, w \in Leaves}

(***************************************************************************)
(* The texts a user hands to Parse directly: an opening part, up to        *)
(* MaxTokens tokens, a closing part; well-formed and malformed alike.      *)
(***************************************************************************)
Tokens ==
    {<<"{">>, <<"}">>, <<"[">>, <<"]">>, <<",">>, <<" ">>, <<"\n">>,
     <<QUOTE, "a", QUOTE, ":">>, <<QUOTE, "s", QUOTE>>,
     <<"n", "u", "l", "l">>, <<"t", "r", "u", "e">>, <<"f", "a", "l", "s", "e">>,
     <<"t", "r", "u">>, <<"f">>, <<"1">>, <<"1", "2">>}

TokenSeqs == UNION {[1..n -> Tokens] : n \in 0..MaxTokens}

Openings == {<<>>, <<"{">>, <<"{", QUOTE, "a", QUOTE, ":">>}

Closings == {<<>>, <<"}">>}

\* {"a":1,"a":2}
TextDuplicateKeys ==
    <<"{", QUOTE, "a", QUOTE, ":", "1", ",", QUOTE, "a", QUOTE, ":", "2", "}">>

\* {"a": 1 , "a": 2 }
TextDuplicateKeysSpaced ==
    <<"{", QUOTE, "a", QUOTE, ":", " ", "1", " ", ",", " ", QUOTE, "a", QUOTE, ":", " ", "2", " ", "}">>

\* {"a":[1,{"b":true},null]}
TextNested ==
    <<"{", QUOTE, "a", QUOTE, ":", "[", "1", ",", "{", QUOTE, "b", QUOTE, ":",
      "t", "r", "u", "e", "}", ",", "n", "u", "l", "l", "]", "}">>

Texts ==
    {o \o Concat(b) \o c : o \in Openings, b \in TokenSeqs, c \in Closings}
        \cup {TextDuplicateKeys, TextDuplicateKeysSpaced, TextNested}

(***************************************************************************)
(* JsonParser.  A frame of stack is one active call of ParseString,        *)
(* ParseNumber, ParseValue, ParseArray or ParseObject with its locals;     *)
(* ParseJson is active below them all while pc = "parsing".                *)
(***************************************************************************)
\* from is history, not a local: where the cursor stood when the current iteration
\* of ParseArray's or ParseObject's while loop began (0 before the first)
Frame(fn) == [fn |-> fn, cache |-> <<>>, value |-> JsonValue("Null"), key |-> <<>>, from |-> 0]

Top == stack[Len(stack)]

Pop(stk) == SubSeq(stk, 1, Len(stk) - 1)

SetTop(stk, f) == [stk EXCEPT ![Len(stk)] = f]

\* the function whose code runs next
Running == IF stack = <<>> THEN "ParseJson" ELSE Top.fn

\* *_it is a character of json_str or one already read behind it
CanRead == it >= 1 /\ it <= Len(mem)

Cur == mem[it]

At(fn) == pc = "parsing" /\ Running = fn /\ CanRead

\* ParseBoolean: the width skipped, by the leading character alone
BooleanWidth(c) == IF c = "t" THEN 4 ELSE 5

\* cache.erase(std::remove_if(cache.begin(), cache.end(), isspace), cache.end())
StripSpace(cache) == SelectSeq(cache, LAMBDA c : ~IsSpace(c))

\* A call made where a JsonValue is expected returns v with the cursor at pos;
\* stk is the stack below the callee.  The caller is ParseValue (whose own
\* caller then gets v: ParseArray's AddElement or ParseObject's AddMember) or
\* ParseJson (doc.AddMember, break, and the for loop's ++_it).
ReturnValue(stk, v, pos) ==
    LET below == IF stk # <<>> /\ stk[Len(stk)].fn = "ParseValue" THEN Pop(stk) ELSE stk
    IN  IF below = <<>>
        THEN /\ doc' = DocAddMember(doc, key_word, v)
             /\ it' = pos + 1
             /\ stack' = <<>>
             /\ pc' = pc
        ELSE LET f == below[Len(below)]
             IN  /\ doc' = doc
                 /\ it' = pos
                 /\ IF f.fn = "ParseArray"
                    THEN IF Len(f.value._array) >= MaxElems
                         THEN stack' = below /\ pc' = "nomem"
                         ELSE /\ stack' = SetTop(below, [f EXCEPT !.value = AddElement(f.value, v)])
                              /\ pc' = pc
                    ELSE /\ stack' = SetTop(below, [f EXCEPT !.value = AddMember(f.value, f.key, v)])
                         /\ pc' = pc

userVars == <<mode, srcDoc, json_str, order, val, ret, last>>

\* JsonSerializer::SerializeObject(srcDoc), whose result the user hands to Parse
Serialize ==
    /\ pc = "built"
    /\ json_str' = SerializeObject(srcDoc)
    /\ pc' = "ready"
    /\ UNCHANGED <<mode, srcDoc, order, val, ret, last, parserVars>>

\* ParseJson's _it_end-- on _it_end = json_str.end(): the final character, taken
\* to be the closing brace, is left out of the working range
NarrowedEndKept(s) == Len(s) + 1
NarrowedEnd(s) == Len(s)

\* JsonParser::Parse up to ParseJson's loop
Parse ==
    /\ pc = "ready"
    /\ IF json_str = <<>>
       THEN /\ doc' = EmptyDoc
            /\ pc' = "done"
            /\ UNCHANGED <<mem, it, it_end>>
       ELSE /\ mem' = json_str
            /\ doc' = EmptyDoc
            /\ IF json_str[1] = "{"
               THEN it' = 2 /\ it_end' = NarrowedEnd(json_str) /\ pc' = "parsing"
               ELSE it' = 1 /\ it_end' = Len(json_str) + 1 /\ pc' = "done"
    /\ isKey' = FALSE
    /\ key_word' = <<>>
    /\ UNCHANGED <<stack, userVars>>

\* ParseJson: the for loop's condition fails; return doc
JsonReturn ==
    /\ pc = "parsing" /\ stack = <<>> /\ it = it_end
    /\ pc' = "done"
    /\ UNCHANGED <<parserVars, userVars>>

JsonNull ==
    /\ At("ParseJson") /\ it # it_end /\ Cur = "n"
    /\ isKey' = FALSE
    /\ doc' = DocAddMember(doc, key_word, JsonValue("Null"))
    /\ it' = it + 1
    /\ UNCHANGED <<pc, mem, it_end, stack, key_word, userVars>>

JsonBoolean ==
    /\ At("ParseJson") /\ it # it_end /\ Cur \in {"t", "f"}
    /\ isKey' = FALSE
    /\ doc' = DocAddMember(doc, key_word, SetBoolean(JsonValue("Null"), Cur = "t"))
    /\ it' = it + BooleanWidth(Cur) + 1
    /\ UNCHANGED <<pc, mem, it_end, stack, key_word, userVars>>

\* case '\"': a key when none is pending, else a string value; ParseString's first _it++
JsonQuote ==
    /\ At("ParseJson") /\ it # it_end /\ Cur = QUOTE
    /\ isKey' = ~isKey
    /\ stack' = Append(stack, Frame("ParseString"))
    /\ it' = it + 1
    /\ UNCHANGED <<pc, mem, it_end, doc, key_word, userVars>>

\* case '[': ParseArray's _it++ and its empty Array value
JsonArray ==
    /\ At("ParseJson") /\ it # it_end /\ Cur = "["
    /\ isKey' = FALSE
    /\ stack' = Append(stack, [Frame("ParseArray") EXCEPT !.value = JsonValue("Array")])
    /\ it' = it + 1
    /\ UNCHANGED <<pc, mem, it_end, doc, key_word, userVars>>

JsonObject ==
    /\ At("ParseJson") /\ it # it_end /\ Cur = "{"
    /\ isKey' = FALSE
    /\ stack' = Append(stack, [Frame("ParseObject") EXCEPT !.value = JsonValue("Object")])
    /\ it' = it + 1
    /\ UNCHANGED <<pc, mem, it_end, doc, key_word, userVars>>

JsonNumber ==
    /\ At("ParseJson") /\ it # it_end /\ Cur \in Digits
    /\ isKey' = FALSE
    /\ stack' = Append(stack, Frame("ParseNumber"))
    /\ UNCHANGED <<pc, mem, it, it_end, doc, key_word, userVars>>

\* default: continue
JsonSkip ==
    /\ At("ParseJson") /\ it # it_end
    /\ Cur \notin {"n", "t", "f", QUOTE, "[", "{"} \cup Digits
    /\ it' = it + 1
    /\ UNCHANGED <<pc, mem, it_end, stack, doc, isKey, key_word, userVars>>

\* ParseString: while (*_it != '\"') { cache += *_it; _it++; }
StringChar ==
    /\ At("ParseString") /\ Cur # QUOTE
    /\ stack' = SetTop(stack, [Top EXCEPT !.cache = Append(Top.cache, Cur)])
    /\ it' = it + 1
    /\ UNCHANGED <<pc, mem, it_end, doc, isKey, key_word, userVars>>

\* ParseString: the closing quote, _it++, return cache to the caller: ParseJson
\* (a key, or a string value and then the loop's ++_it), ParseObject (its key,
\* then its call of ParseValue) or ParseValue (a String value)
StringReturn ==
    /\ At("ParseString") /\ Cur = QUOTE
    /\ LET cache == Top.cache
           below == Pop(stack)
       IN  IF below = <<>>
           THEN /\ stack' = <<>>
                /\ it' = it + 2
                /\ pc' = pc
                /\ IF isKey
                   THEN key_word' = cache /\ doc' = doc
                   ELSE /\ key_word' = key_word
                        /\ doc' = DocAddMember(doc, key_word, SetString(JsonValue("Null"), cache))
           ELSE IF below[Len(below)].fn = "ParseObject"
           THEN /\ stack' = Append(SetTop(below, [below[Len(below)] EXCEPT !.key = cache]),
                                   Frame("ParseValue"))
                /\ it' = it + 1
                /\ UNCHANGED <<pc, doc, key_word>>
           ELSE /\ ReturnValue(below, SetString(JsonValue("Null"), cache), it + 1)
                /\ key_word' = key_word
    /\ UNCHANGED <<mem, it_end, isKey, userVars>>

\* ParseNumber's loop goes on: while (*_it != ',' || (_it == _it_end) == true),
\* and no break on '}'
NumberContinues(c, pos, end) == (c # "," \/ pos = end) /\ c # "}"

NumberChar ==
    /\ At("ParseNumber") /\ NumberContinues(Cur, it, it_end)
    /\ stack' = SetTop(stack, [Top EXCEPT !.cache = Append(Top.cache, Cur)])
    /\ it' = it + 1
    /\ UNCHANGED <<pc, mem, it_end, doc, isKey, key_word, userVars>>

\* ParseNumber returns; the caller wraps the text: JsonValue value(Number); SetNumberString
NumberReturn ==
    /\ At("ParseNumber") /\ ~NumberContinues(Cur, it, it_end)
    /\ ReturnValue(Pop(stack), SetNumberString(JsonValue("Number"), StripSpace(Top.cache)), it)
    /\ UNCHANGED <<mem, it_end, isKey, key_word, userVars>>

\* ParseValue: the for loop's condition fails; return JsonValue()
ValueEnd ==
    /\ pc = "parsing" /\ Running = "ParseValue" /\ it = it_end
    /\ ReturnValue(stack, JsonValue("Null"), it)
    /\ UNCHANGED <<mem, it_end, isKey, key_word, userVars>>

\* case 'n': return JsonValue(JsonValueType::Null), the cursor left on the n
ValueNull ==
    /\ At("ParseValue") /\ it # it_end /\ Cur = "n"
    /\ ReturnValue(stack, JsonValue("Null"), it)
    /\ UNCHANGED <<mem, it_end, isKey, key_word, userVars>>

ValueBoolean ==
    /\ At("ParseValue") /\ it # it_end /\ Cur \in {"t", "f"}
    /\ ReturnValue(stack, SetBoolean(JsonValue("Null"), Cur = "t"), it + BooleanWidth(Cur))
    /\ UNCHANGED <<mem, it_end, isKey, key_word, userVars>>

ValueQuote ==
    /\ At("ParseValue") /\ it # it_end /\ Cur = QUOTE
    /\ stack' = Append(stack, Frame("ParseString"))
    /\ it' = it + 1
    /\ UNCHANGED <<pc, mem, it_end, doc, isKey, key_word, userVars>>

ValueArray ==
    /\ At("ParseValue") /\ it # it_end /\ Cur = "["
    /\ stack' = Append(stack, [Frame("ParseArray") EXCEPT !.value = JsonValue("Array")])
    /\ it' = it + 1
    /\ UNCHANGED <<pc, mem, it_end, doc, isKey, key_word, userVars>>

ValueObject ==
    /\ At("ParseValue") /\ it # it_end /\ Cur = "{"
    /\ stack' = Append(stack, [Frame("ParseObject") EXCEPT !.value = JsonValue("Object")])
    /\ it' = it + 1
    /\ UNCHANGED <<pc, mem, it_end, doc, isKey, key_word, userVars>>

ValueNumber ==
    /\ At("ParseValue") /\ it # it_end /\ Cur \in Digits
    /\ stack' = Append(stack, Frame("ParseNumber"))
    /\ UNCHANGED <<pc, mem, it, it_end, doc, isKey, key_word, userVars>>

ValueSkip ==
    /\ At("ParseValue") /\ it # it_end
    /\ Cur \notin {"n", "t", "f", QUOTE, "[", "{"} \cup Digits
    /\ it' = it + 1
    /\ UNCHANGED <<pc, mem, it_end, stack, doc, isKey, key_word, userVars>>

\* the separators ParseArray and ParseObject step over
IsSeparator(c) == c \in {",", " ", "\n"}

\* ParseArray: while (*_it != ']') fails; return value, the cursor left on the ]
ArrayReturn ==
    /\ At("ParseArray") /\ Cur = "]"
    /\ ReturnValue(Pop(stack), Top.value, it)
    /\ UNCHANGED <<mem, it_end, isKey, key_word, userVars>>

ArraySkip ==
    /\ At("ParseArray") /\ IsSeparator(Cur)
    /\ it' = it + 1
    /\ stack' = SetTop(stack, [Top EXCEPT !.from = it])
    /\ UNCHANGED <<pc, mem, it_end, doc, isKey, key_word, userVars>>

\* else value.AddElement(ParseValue()): the call; AddElement is done on its return
ArrayElement ==
    /\ At("ParseArray") /\ Cur # "]" /\ ~IsSeparator(Cur)
    /\ stack' = Append(SetTop(stack, [Top EXCEPT !.from = it]), Frame("ParseValue"))
    /\ UNCHANGED <<pc, mem, it, it_end, doc, isKey, key_word, userVars>>

\* ParseObject: while (*_it != '}') fails; _it++; return refValue
ObjectReturn ==
    /\ At("ParseObject") /\ Cur = "}"
    /\ ReturnValue(Pop(stack), Top.value, it + 1)
    /\ UNCHANGED <<mem, it_end, isKey, key_word, userVars>>

ObjectSkip ==
    /\ At("ParseObject") /\ IsSeparator(Cur)
    /\ it' = it + 1
    /\ stack' = SetTop(stack, [Top EXCEPT !.from = it])
    /\ UNCHANGED <<pc, mem, it_end, doc, isKey, key_word, userVars>>

\* else std::string key = ParseString(): the call and its first _it++, whatever *_it is
ObjectKey ==
    /\ At("ParseObject") /\ Cur # "}" /\ ~IsSeparator(Cur)
    /\ stack' = Append(SetTop(stack, [Top EXCEPT !.from = it]), Frame("ParseString"))
    /\ it' = it + 1
    /\ UNCHANGED <<pc, mem, it_end, doc, isKey, key_word, userVars>>

(***************************************************************************)
(* Dereferencing _it at or behind json_str.end() is undefined behaviour:   *)
(* the read faults, or it yields whatever character lies there.            *)
(***************************************************************************)
\* the next step dereferences _it, and _it is outside what has been read
ReadsOutside ==
    /\ pc = "parsing" /\ it > Len(mem)
    /\ ~(Running \in {"ParseJson", "ParseValue"} /\ it = it_end)

Fault ==
    /\ ReadsOutside
    /\ pc' = "crashed"
    /\ UNCHANGED <<parserVars, userVars>>

ReadPastEnd ==
    /\ ReadsOutside
    /\ it <= Len(json_str) + MaxOverrun
    /\ \E c \in Chars :
          mem' = mem \o [i \in 1..(it - Len(mem) - 1) |-> Skipped] \o <<c>>
    /\ UNCHANGED <<pc, it, it_end, stack, doc, isKey, key_word, userVars>>

(***************************************************************************)
(* The numeric getters of JsonValue on a raw-text number.                  *)
(***************************************************************************)
INT_MAX == 2147483647
SHRT_MOD == 65536

DigitValue(c) ==
    CASE c = "0" -> 0 [] c = "1" -> 1 [] c = "2" -> 2 [] c = "3" -> 3 [] c = "4" -> 4
      [] c = "5" -> 5 [] c = "6" -> 6 [] c = "7" -> 7 [] c = "8" -> 8 [] c = "9" -> 9

\* what a call produced: a value, or an exception thrown to the caller
Returned(n) == [status |-> "returned", value |-> n]
Thrown(what) == [status |-> what, value |-> 0]
\* a value read from a member nothing has written
Indeterminate == [status |-> "indeterminate", value |-> 0]

\* strtol's digit loop from position i on: acc is the magnitude so far, any
\* whether a digit was consumed; the first non-digit ends the number
RECURSIVE stoiDigits(_, _, _, _, _)
stoiDigits(str, i, neg, acc, any) ==
    IF i > Len(str) \/ str[i] \notin Digits
    THEN IF ~any THEN Thrown("invalid_argument")
         ELSE Returned(IF neg THEN 0 - acc ELSE acc)
    ELSE LET d == DigitValue(str[i])
             limit == INT_MAX \div 10
         IN  IF acc > limit \/ (acc = limit /\ d > (IF neg THEN 8 ELSE 7))
             THEN Thrown("out_of_range")
             ELSE IF acc = limit /\ d = 8
             THEN \* INT_MIN itself; any further digit is out of range
                  IF i < Len(str) /\ str[i + 1] \in Digits THEN Thrown("out_of_range")
                  ELSE Returned((0 - INT_MAX) - 1)
             ELSE stoiDigits(str, i + 1, neg, acc * 10 + d, TRUE)

RECURSIVE SkipSpace(_, _)
SkipSpace(str, i) == IF i <= Len(str) /\ IsSpace(str[i]) THEN SkipSpace(str, i + 1) ELSE i

\* std::stoi(str): leading whitespace, an optional sign, decimal digits; whatever
\* follows the digits is ignored
stoi(str) ==
    LET i == SkipSpace(str, 1)
        signed == i <= Len(str) /\ str[i] \in {"-", "+"}
    IN  stoiDigits(str, IF signed THEN i + 1 ELSE i, signed /\ str[i] = "-", 0, FALSE)

\* the conversion of an int to short: the low 16 bits, two's complement
ToShort(n) ==
    LET low == n % SHRT_MOD
    IN  IF low >= SHRT_MOD \div 2 THEN low - SHRT_MOD ELSE low

\* if (_number_type == JsonNumberType::String) return(std::stoi(number_string)); return int_value;
GetInt(v) ==
    IF v._number_type = "String" THEN stoi(v.number_string)
    ELSE IF v._number_type = "Int" THEN Returned(v.number_value)
    ELSE Indeterminate

\* short GetInt16(): the int std::stoi returns is converted to short by the return
GetInt16(v) ==
    IF v._number_type = "String"
    THEN LET r == stoi(v.number_string)
         IN  IF r.status = "returned" THEN Returned(ToShort(r.value)) ELSE r
    ELSE IF v._number_type = "Int16" THEN Returned(v.number_value)
    ELSE Indeterminate

\* no getter called since val last changed
NoCall == [call |-> "none", result |-> Returned(0)]

\* the raw texts a user (or the parser) stores in a Number
NumberAlphabet == {"0", "1", "7", "-", " ", "a", "."}

\* 42, 70000, 12abc, 2147483647, 2147483648, -2147483648, 18446744073709551615
NumberExamples ==
    {<<"4", "2">>, <<"7", "0", "0", "0", "0">>, <<"1", "2", "a", "b", "c">>,
     <<"2", "1", "4", "7", "4", "8", "3", "6", "4", "7">>,
     <<"2", "1", "4", "7", "4", "8", "3", "6", "4", "8">>,
     <<"-", "2", "1", "4", "7", "4", "8", "3", "6", "4", "8">>,
     <<"1", "8", "4", "4", "6", "7", "4", "4", "0", "7", "3", "7", "0", "9", "5", "5", "1", "6", "1", "5">>}

MaxNumberLen == 3

NumberTexts == NumberExamples \cup UNION {[1..n -> NumberAlphabet] : n \in 0..MaxNumberLen}

\* the user makes val a raw-text Number
UserSetNumberString ==
    /\ pc = "value"
    /\ \E s \in NumberTexts : val' = SetNumberString(JsonValue("Number"), s)
    /\ ret' = NoCall
    /\ last' = "SetNumberString"
    /\ UNCHANGED <<mode, srcDoc, json_str, order, pc, parserVars>>

CallGetInt ==
    /\ pc = "value"
    /\ ret' = [call |-> "GetInt", result |-> GetInt(val)]
    /\ UNCHANGED <<mode, srcDoc, json_str, order, pc, parserVars, val, last>>

CallGetInt16 ==
    /\ pc = "value"
    /\ ret' = [call |-> "GetInt16", result |-> GetInt16(val)]
    /\ UNCHANGED <<mode, srcDoc, json_str, order, pc, parserVars, val, last>>

Init ==
    /\ \/ /\ mode = "doc"
          /\ srcDoc \in Docs
          /\ order \in KeyOrders
          /\ json_str = <<>>
          /\ pc = "built"
       \/ /\ mode = "text"
          /\ srcDoc = EmptyDoc
          /\ order = <<KeyA, KeyB>>
          /\ json_str \in Texts
          /\ pc = "ready"
    /\ mem = <<>>
    /\ it = 0
    /\ it_end = 0
    /\ stack = <<>>
    /\ doc = EmptyDoc
    /\ isKey = FALSE
    /\ key_word = <<>>
    /\ val = JsonValue("Null")
    /\ ret = NoCall
    /\ last = "none"

Next ==
    \/ Serialize \/ Parse
    \/ JsonReturn \/ JsonNull \/ JsonBoolean \/ JsonQuote \/ JsonArray \/ JsonObject
    \/ JsonNumber \/ JsonSkip
    \/ StringChar \/ StringReturn \/ NumberChar \/ NumberReturn
    \/ ValueEnd \/ ValueNull \/ ValueBoolean \/ ValueQuote \/ ValueArray \/ ValueObject
    \/ ValueNumber \/ ValueSkip
    \/ ArrayReturn \/ ArraySkip \/ ArrayElement
    \/ ObjectReturn \/ ObjectSkip \/ ObjectKey
    \/ Fault \/ ReadPastEnd

Spec == Init /\ [][Next]_vars

(***************************************************************************)
(* The value model on its own: a user holding one JsonValue.               *)
(***************************************************************************)
InitValue ==
    /\ mode = "value"
    /\ pc = "value"
    /\ srcDoc = EmptyDoc
    /\ order = <<KeyA, KeyB>>
    /\ json_str = <<>>
    /\ mem = <<>>
    /\ it = 0
    /\ it_end = 0
    /\ stack = <<>>
    /\ doc = EmptyDoc
    /\ isKey = FALSE
    /\ key_word = <<>>
    /\ val = JsonValue("Null")
    /\ ret = NoCall
    /\ last = "none"

NextValue == UserSetNumberString \/ CallGetInt \/ CallGetInt16

SpecValue == InitValue /\ [][NextValue]_vars

(***************************************************************************)
(* The mutators of JsonValue, called in any order on one value that starts *)
(* default-constructed; at some point the user adds the value to a         *)
(* document under the key a and serializes the document.                   *)
(***************************************************************************)
MutatorBooleans == {TRUE, FALSE}
MutatorNumbers == {0, 42}
MutatorNumberTexts == {<<"1">>, <<"4", "2">>}
MutatorStrings == {<<"s">>}
MutatorElements == {NullValue, BooleanValue(TRUE)}
MutatorMembers == {NullValue}

\* a mutator call on val that leaves it as v
Mutate(name, v) ==
    /\ pc = "value"
    /\ val' = v
    /\ last' = name
    /\ ret' = NoCall
    /\ UNCHANGED <<mode, srcDoc, json_str, order, pc, parserVars>>

CallSetBoolean == \E b \in MutatorBooleans : Mutate("SetBoolean", SetBoolean(val, b))

CallSetNumberString == \E s \in MutatorNumberTexts : Mutate("SetNumberString", SetNumberString(val, s))

CallSetInt == \E n \in MutatorNumbers : Mutate("SetInt", SetInt(val, n))

CallSetUint == \E n \in MutatorNumbers : Mutate("SetUint", SetUint(val, n))

CallSetInt64 == \E n \in MutatorNumbers : Mutate("SetInt64", SetInt64(val, n))

CallSetUint64 == \E n \in MutatorNumbers : Mutate("SetUint64", SetUint64(val, n))

CallSetDouble == \E n \in MutatorNumbers : Mutate("SetDouble", SetDouble(val, n))

CallSetFloat == \E n \in MutatorNumbers : Mutate("SetFloat", SetFloat(val, n))

CallSetInt16 == \E n \in MutatorNumbers : Mutate("SetInt16", SetInt16(val, n))

CallSetString == \E s \in MutatorStrings : Mutate("SetString", SetString(val, s))

CallAddElement ==
    /\ Len(val._array) < MaxArrLen
    /\ \E e \in MutatorElements : Mutate("AddElement", AddElement(val, e))

CallAddMember ==
    \E key \in Keys, value \in MutatorMembers : Mutate("AddMember", AddMember(val, key, value))

\* JsonDocument doc; doc.AddMember("a", val): the document a serializer is given
UserAddMember ==
    /\ pc = "value"
    /\ srcDoc' = DocAddMember(EmptyDoc, KeyA, val)
    /\ pc' = "built"
    /\ UNCHANGED <<mode, json_str, order, val, ret, last, parserVars>>

NextMutators ==
    \/ CallSetBoolean \/ CallSetNumberString
    \/ CallSetInt \/ CallSetUint \/ CallSetInt64 \/ CallSetUint64
    \/ CallSetDouble \/ CallSetFloat \/ CallSetInt16
    \/ CallSetString \/ CallAddElement \/ CallAddMember
    \/ UserAddMember \/ Serialize

SpecMutators == InitValue /\ [][NextMutators]_vars

(***************************************************************************)
(* Properties.                                                             *)
(***************************************************************************)
Finished == pc \in {"done", "crashed", "nomem"}

\* structural equality: kinds and payloads; Array order counts, member order does not
RECURSIVE SameValue(_, _)
SameValue(x, y) ==
    /\ x._type = y._type
    /\ CASE x._type = "Null" -> TRUE
         [] x._type = "Boolean" -> x._boolean = y._boolean
         [] x._type = "Number" ->
                /\ x._number_type = y._number_type
                /\ IF x._number_type = "String" THEN x.number_string = y.number_string
                   ELSE x.number_value = y.number_value
         [] x._type = "String" -> x._string = y._string
         [] x._type = "Array" ->
                /\ Len(x._array) = Len(y._array)
                /\ \A i \in 1..Len(x._array) : SameValue(x._array[i], y._array[i])
         [] x._type = "Object" ->
                /\ DOMAIN x._object = DOMAIN y._object
                /\ \A k \in DOMAIN x._object : SameValue(x._object[k], y._object[k])

SameDocument(d, e) ==
    /\ DOMAIN d = DOMAIN e
    /\ \A k \in DOMAIN d : SameValue(d[k], e[k])

\* every Number in v is of the raw-text subkind
RECURSIVE RawTextOnly(_)
RawTextOnly(v) ==
    CASE v._type = "Number" -> v._number_type = "String"
      [] v._type = "Array" -> \A i \in 1..Len(v._array) : RawTextOnly(v._array[i])
      [] v._type = "Object" -> \A k \in DOMAIN v._object : RawTextOnly(v._object[k])
      [] OTHER -> TRUE

RawTextDocument(d) == \A k \in DOMAIN d : RawTextOnly(d[k])

\* C1: round trip.  A document built from Null, Boolean, raw-text Number, String,
\* Array and Object values is serialized and the text parsed: the parse completes
\* (it neither faults nor runs out of memory) and returns a structurally equal
\* document.
C1_RoundTrip ==
    (mode = "doc" /\ RawTextDocument(srcDoc)) =>
        /\ pc \notin {"crashed", "nomem"}
        /\ pc = "done" => SameDocument(doc, srcDoc)

\* C2: on any input text the cursor never moves past the end of the text and is
\* never dereferenced at or behind the end position.
C2_CursorInBounds ==
    /\ it <= Len(json_str) + 1
    /\ ~ReadsOutside
    /\ pc # "crashed"

\* C3: every iteration of ParseArray's and ParseObject's loop makes progress: when
\* the loop is back at its condition after an iteration, the cursor is behind where
\* that iteration began; so the parse cannot loop until memory runs out.
C3_LoopsMakeProgress ==
    /\ (pc = "parsing" /\ Running \in {"ParseArray", "ParseObject"}) => Top.from < it
    /\ pc # "nomem"

\* an object text whose member value of key a starts with t or f and is not the
\* literal true or false
MalformedLiteral(s) ==
    /\ Len(s) >= 7
    /\ s[Len(s)] = "}"
    /\ SubSeq(s, 1, 5) = <<"{", QUOTE, "a", QUOTE, ":">>
    /\ s[6] \in {"t", "f"}
    /\ ~(Len(s) >= 9 /\ SubSeq(s, 6, 9) = <<"t", "r", "u", "e">>)
    /\ ~(Len(s) >= 10 /\ SubSeq(s, 6, 10) = <<"f", "a", "l", "s", "e">>)

\* C4: when a member value starts with t or f without being true or false, Parse
\* does not return a document (it has to report an error), adds no Boolean member
\* for the key and does not move the cursor past the end of the text.
C4_MalformedLiteralRejected ==
    MalformedLiteral(json_str) =>
        /\ pc # "done"
        /\ \A k \in DOMAIN doc : doc[k]._type # "Boolean"
        /\ it <= Len(json_str) + 1

\* [1,{"b":true},null] as a value
NestedArray ==
    ArrayValue(<<NumberValue(<<"1">>), ObjectValue([k \in {KeyB} |-> BooleanValue(TRUE)]), NullValue>>)

\* C5: an array text as a member value parses to an Array with one Value per source
\* element, in order and of the element's kind; {"a":[1,{"b":true},null]} gives
\* member a the three elements Number(1), Object{b: true}, Null.
C5_ArrayParsed ==
    /\ json_str = TextNested =>
            /\ pc \notin {"crashed", "nomem"}
            /\ pc = "done" => (DOMAIN doc = {KeyA} /\ SameValue(doc[KeyA], NestedArray))
    /\ (mode = "doc" /\ DOMAIN srcDoc = {KeyA} /\ srcDoc[KeyA]._type = "Array") =>
            /\ pc \notin {"crashed", "nomem"}
            /\ pc = "done" => (DOMAIN doc = {KeyA} /\ SameValue(doc[KeyA], srcDoc[KeyA]))

\* C6: {"a":1,"a":2} parses to completion, to a document whose one member a is
\* Number(2): the last occurrence of a key wins.
C6_DuplicateKeysLastWins ==
    json_str \in {TextDuplicateKeys, TextDuplicateKeysSpaced} =>
        /\ pc \notin {"crashed", "nomem"}
        /\ pc = "done" => (DOMAIN doc = {KeyA} /\ SameValue(doc[KeyA], NumberValue(<<"2">>)))

\* an optional minus sign and decimal digits, nothing else
IsIntegerText(s) ==
    /\ s # <<>>
    /\ LET digits == IF s[1] = "-" THEN Tail(s) ELSE s
       IN  digits # <<>> /\ \A i \in 1..Len(digits) : digits[i] \in Digits

\* the text is an integer whose value the getter's return type can hold
InRangeOf(call, s) ==
    /\ IsIntegerText(s)
    /\ stoi(s).status = "returned"
    /\ call = "GetInt16" => (stoi(s).value >= 0 - SHRT_MOD \div 2 /\ stoi(s).value < SHRT_MOD \div 2)

\* C7: a numeric getter on a raw-text Number returns the number the text denotes
\* when the text is a number in the range of the getter's type, and otherwise fails
\* with an error: no truncated and no partially parsed value.
C7_GetterConvertsOrFails ==
    (ret.call # "none" /\ val._number_type = "String") =>
        IF InRangeOf(ret.call, val.number_string)
        THEN ret.result = Returned(stoi(val.number_string).value)
        ELSE ret.result.status \in {"invalid_argument", "out_of_range"}

\* C8: Parse("") returns an empty Document and leaves the cursor alone; Parse("{}")
\* returns a Document with no member and its member loop runs no iteration: the
\* cursor stays where ParseJson put it, on the end of the working range.
C8_Boundary ==
    /\ json_str = <<>> =>
            /\ pc \in {"built", "ready", "done"}
            /\ doc = EmptyDoc /\ it = 0 /\ it_end = 0 /\ mem = <<>>
    /\ json_str = <<"{", "}">> =>
            /\ pc \in {"ready", "parsing", "done"}
            /\ doc = EmptyDoc /\ stack = <<>>
            /\ pc # "ready" => (it = 2 /\ it_end = 2)

C8_Witness == json_str = <<"{", "}">> /\ pc = "done" /\ mode = "text"

\* parts with sep between each two
RECURSIVE Join(_, _)
Join(parts, sep) ==
    IF parts = <<>> THEN <<>>
    ELSE IF Len(parts) = 1 THEN parts[1]
    ELSE parts[1] \o sep \o Join(Tail(parts), sep)

\* the rendering the shape prescribes: containers bracketed, items joined by one comma
RECURSIVE Rendering(_)
Rendering(v) ==
    CASE v._type = "Array" ->
            <<"[">> \o Join([i \in 1..Len(v._array) |-> Rendering(v._array[i])], <<",">>) \o <<"]">>
      [] v._type = "Object" ->
            LET keys == Members(v._object)
            IN  <<"{">> \o Join([i \in 1..Len(keys) |->
                                   <<QUOTE>> \o keys[i] \o <<QUOTE, ":">> \o Rendering(v._object[keys[i]])],
                                <<",">>) \o <<"}">>
      [] OTHER -> GenValue(v)

\* C9: SerializeObject renders each Array as [ elements ] in storage order and each
\* Object and the Document as { "key":value pairs }, one comma between neighbours,
\* none leading or trailing, an empty container as [] or {}, and no whitespace
\* (the keys and strings of the documents built here hold none of their own).
C9_SerializedShape ==
    (mode = "doc" /\ pc # "built") =>
        /\ json_str = Rendering(ObjectValue(srcDoc))
        /\ \A i \in 1..Len(json_str) : ~IsSpace(json_str[i])
        /\ \A i \in 1..(Len(json_str) - 1) :
              /\ json_str[i] = "," => json_str[i + 1] \notin {",", "]", "}"}
              /\ json_str[i] \in {"[", "{"} => json_str[i + 1] # ","

C9_Witness == mode = "doc" /\ pc = "ready" /\ json_str = TextNested

\* C10: ParseNumber, entered at a digit of the text (nothing behind the text has
\* been read), stops at the first , or } or at the end of the working range, reads
\* nothing at or behind the end position, and what it has collected holds no
\* delimiter: an array element's number ends before the array's ].
C10_NumberStopsAtDelimiter ==
    (pc = "parsing" /\ Running = "ParseNumber" /\ mem = json_str) =>
        /\ it <= it_end
        /\ ~ReadsOutside
        /\ \A i \in 1..Len(Top.cache) : Top.cache[i] \notin {"]", ",", "}"}

\* the kind a mutator gives the value it is called on
KindOf(mutator) ==
    CASE mutator = "none" -> "Null"
      [] mutator = "SetBoolean" -> "Boolean"
      [] mutator \in {"SetNumberString", "SetInt", "SetUint", "SetInt64", "SetUint64",
                      "SetDouble", "SetFloat", "SetInt16"} -> "Number"
      [] mutator = "SetString" -> "String"
      [] mutator = "AddElement" -> "Array"
      [] mutator = "AddMember" -> "Object"

\* C11: after any sequence of mutator calls on a default-constructed value,
\* GetType() is the kind of the most recent mutator (Number after SetNumberString
\* as after every other numeric setter), and a value last set with SetNumberString
\* is serialized as its raw number text, not as null.
C11_TypeTagFollowsLastMutator ==
    mode = "value" =>
        /\ val._type = KindOf(last)
        /\ (pc = "ready" /\ last = "SetNumberString") =>
                json_str = <<"{">> \o GenKey(KeyA) \o val.number_string \o <<"}">>

====
